---- MODULE Spec2Model ----
(***************************************************************************)
(* Model of package pki (src/pki/certs.go): RandSerial, RandKey,           *)
(* IssueCertificate and IssueTestCertificate.                              *)
(*                                                                         *)
(* A Go pointer is a tuple: Nil is the nil pointer, Ptr(v) points at v.    *)
(* A Go string or byte slice is a sequence of characters or of bytes.      *)
(* An instant (time.Time) is an integer count of ticks, TicksPerSecond     *)
(* ticks to the second, so that an instant can carry a fraction of a       *)
(* second as clock.Now() does.  A *big.Int below 2^63 is its 8-byte        *)
(* big-endian machine word.  An error is a string, NoErr the nil error.    *)
(***************************************************************************)
EXTENDS Integers, Sequences, FiniteSets, TLC

VARIABLES
    pc,           \* position of the call in IssueTestCertificate
    baseDomain0,  \* the baseDomain argument as passed by the caller
    baseDomain,   \* the baseDomain parameter (reassigned at line 132)
    issuerKey,    \* *ecdsa.PrivateKey argument
    issuerCert,   \* *x509.Certificate argument
    clk,          \* the instant the clock.Clock argument reports
    windowStart,  \* *time.Time argument
    windowEnd,    \* *time.Time argument
    randReader,   \* what crypto/rand yields to RandKey and RandSerial
    x509env,      \* outcome of the x509 library for each IssueCertificate call
    certKey,      \* local certKey
    serial,       \* local serial
    notBefore,    \* local notBefore
    notAfter,     \* local notAfter
    domain,       \* local domain
    preCert,      \* local preCert
    cert,         \* local cert
    ret,          \* what IssueTestCertificate returned
    events,       \* calls made so far, in order
    issued,       \* templates handed to IssueCertificate by issueLeafCert
    subjectKey,   \* subjectKey argument of a direct IssueCertificate call
    template,     \* template argument of a direct IssueCertificate call
    icRet         \* what the direct IssueCertificate call returned

vars == <<pc, baseDomain0, baseDomain, issuerKey, issuerCert, clk, windowStart,
          windowEnd, randReader, x509env, certKey, serial, notBefore, notAfter,
          domain, preCert, cert, ret, events, issued, subjectKey, template, icRet>>

-----------------------------------------------------------------------------
(* Bounds of the model *)

\* longest baseDomain argument tried
MaxDomainLen == 2
\* clock and window instants are taken on a grid of 0..MaxPeriods half validity periods
MaxPeriods == 4
\* ... plus 0..MaxTicks ticks (fractions of a second and one whole second)
MaxTicks == 2
\* resolution of an instant
TicksPerSecond == 2

-----------------------------------------------------------------------------
(* Pointers, errors, time *)

Nil == <<>>
Ptr(v) == <<v>>
Deref(p) == p[1]

NoErr == "nil"

Second == TicksPerSecond
Hour == 3600 * Second

\* time.Time.Add, Before, After
Add(t, d) == t + d
Before(t, u) == t < u
After(t, u) == t > u

-----------------------------------------------------------------------------
(* Package constants and variables *)

defaultTestCertDomain == <<".", "w", "o", "o", "d", "p", "e", "c", "k", "e", "r", ".", "t", "e", "s", "t", "i", "n", "g", ".", "l", "e", "t", "s", "e", "n", "c", "r", "y", "p", "t", ".", "o", "r", "g">>

errNilSubjKey == "cannot IssueCertificate with nil subjectKey"
errNilIssuerKey == "cannot IssueCertificate with nil issuerKey"
errNilIssuerCert == "cannot IssueCertificate with nil issuerCert"
errNilTemplate == "cannot IssueCertificate with nil template"
errBadBaseDomain == "baseDomain must start with '.' to be used as a domain prefix"

ctPoisonExtensionID == <<1, 3, 6, 1, 4, 1, 11129, 2, 4, 3>>
ctPoisonExtension ==
    [Id |-> ctPoisonExtensionID, Critical |-> TRUE, Value |-> <<5, 0>>]

\* math.MaxInt64 as an 8-byte big-endian word; rand.Int draws below it
WordBytes == 8
MaxInt64 == <<127, 255, 255, 255, 255, 255, 255, 255>>

\* the errors the libraries can hand back
errEntropy == "rand.Reader: read failed"
errCreate == "x509: CreateCertificate failed"
errParse == "x509: ParseCertificate failed"

-----------------------------------------------------------------------------
(* math/big, encoding/hex *)

RECURSIVE StripZeros(_)
StripZeros(w) ==
    IF w = <<>> THEN <<>>
    ELSE IF Head(w) = 0 THEN StripZeros(Tail(w)) ELSE w

\* big.Int.Bytes: the big-endian magnitude without leading zero bytes; the
\* slice returned has capacity equal to its length
Bytes(x) == StripZeros(x)

RECURSIVE LessWord(_, _)
LessWord(a, b) ==
    IF a = <<>> THEN FALSE
    ELSE IF Head(a) # Head(b) THEN Head(a) < Head(b)
    ELSE LessWord(Tail(a), Tail(b))

HexDigits == <<"0", "1", "2", "3", "4", "5", "6", "7",
               "8", "9", "a", "b", "c", "d", "e", "f">>

RECURSIVE EncodeToString(_)
EncodeToString(bs) ==
    IF bs = <<>> THEN <<>>
    ELSE <<HexDigits[(Head(bs) \div 16) + 1], HexDigits[(Head(bs) % 16) + 1]>>
         \o EncodeToString(Tail(bs))

-----------------------------------------------------------------------------
(* RandSerial, RandKey *)

\* r is what rand.Int(rand.Reader, MaxInt64) hands back
RandSerial(r) ==
    IF r.err # NoErr THEN [serial |-> Nil, err |-> r.err]
    ELSE [serial |-> Ptr(r.n), err |-> NoErr]

\* r is what ecdsa.GenerateKey(P256, rand.Reader) hands back
RandKey(r) ==
    IF r.err # NoErr THEN [key |-> Nil, err |-> r.err]
    ELSE [key |-> Ptr(r.key), err |-> NoErr]

\* ecdsa.PrivateKey.Public
Public(k) == Ptr([pub |-> Deref(k)])

-----------------------------------------------------------------------------
(* IssueCertificate *)

\* the encoding of an instant in a certificate (UTCTime / GeneralizedTime)
\* has whole seconds only
EncodeTime(t) == t - (t % Second)

\* x509.CreateCertificate: the DER bytes as the fields they encode.  lib is
\* what the library does on this call: "ok", "create" (signing or encoding
\* fails) or "parse" (the bytes do not parse)
CreateCertificate(tmpl, parent, pub, priv, lib) ==
    IF lib = "create" THEN [der |-> Nil, err |-> errCreate]
    ELSE [der |-> Ptr([SerialNumber |-> tmpl.SerialNumber,
                       Subject |-> tmpl.Subject,
                       DNSNames |-> tmpl.DNSNames,
                       NotBefore |-> EncodeTime(tmpl.NotBefore),
                       NotAfter |-> EncodeTime(tmpl.NotAfter),
                       KeyUsage |-> tmpl.KeyUsage,
                       ExtKeyUsage |-> tmpl.ExtKeyUsage,
                       BasicConstraintsValid |-> tmpl.BasicConstraintsValid,
                       IsCA |-> tmpl.IsCA,
                       IssuingCertificateURL |-> tmpl.IssuingCertificateURL,
                       CRLDistributionPoints |-> tmpl.CRLDistributionPoints,
                       Extensions |-> tmpl.ExtraExtensions,
                       PublicKey |-> Deref(pub),
                       Issuer |-> Deref(parent),
                       SignedBy |-> Deref(priv)]),
          err |-> NoErr]

\* x509.ParseCertificate
ParseCertificate(der, lib) ==
    IF lib = "parse" THEN [cert |-> Nil, err |-> errParse]
    ELSE [cert |-> der, err |-> NoErr]

\* lines 85-94; the result carries the certificate, the error and the
\* library calls made
SignAndParse(subjKey, issKey, issCert, tmpl, lib) ==
    LET c == CreateCertificate(Deref(tmpl), issCert, subjKey, issKey, lib)
    IN IF c.err # NoErr
       THEN [cert |-> Nil, err |-> c.err, calls |-> <<"CreateCertificate">>]
       ELSE LET p == ParseCertificate(c.der, lib)
            IN IF p.err # NoErr
               THEN [cert |-> Nil, err |-> p.err,
                     calls |-> <<"CreateCertificate", "ParseCertificate">>]
               ELSE [cert |-> p.cert, err |-> NoErr,
                     calls |-> <<"CreateCertificate", "ParseCertificate">>]

Refuse(err) == [cert |-> Nil, err |-> err, calls |-> <<>>]

\* IssueCertificate with the template checked before the keys
IssueCertificateTemplateFirst(subjKey, issKey, issCert, tmpl, lib) ==
    IF tmpl = Nil THEN Refuse(errNilTemplate)
    ELSE IF subjKey = Nil THEN Refuse(errNilSubjKey)
    ELSE IF issKey = Nil THEN Refuse(errNilIssuerKey)
    ELSE IF issCert = Nil THEN Refuse(errNilIssuerCert)
    ELSE SignAndParse(subjKey, issKey, issCert, tmpl, lib)

\* lines 68-95
IssueCertificate(subjKey, issKey, issCert, tmpl, lib) ==
    IF subjKey = Nil THEN Refuse(errNilSubjKey)
    ELSE IF issKey = Nil THEN Refuse(errNilIssuerKey)
    ELSE IF issCert = Nil THEN Refuse(errNilIssuerCert)
    ELSE IF tmpl = Nil THEN Refuse(errNilTemplate)
    ELSE SignAndParse(subjKey, issKey, issCert, tmpl, lib)

-----------------------------------------------------------------------------
(* IssueTestCertificate *)

CertificatePair(pre, final) == [PreCert |-> pre, Cert |-> final]
EmptyPair == CertificatePair(Nil, Nil)

\* ResolveBaseDomain without the check of the first character
ResolveBaseDomainUnchecked(bd) ==
    [baseDomain |-> IF bd = <<>> THEN defaultTestCertDomain ELSE bd, err |-> NoErr]

\* lines 131-136: the suffix, and whether the call goes on
ResolveBaseDomain(bd) ==
    LET resolved == IF bd = <<>> THEN defaultTestCertDomain ELSE bd
    IN [baseDomain |-> resolved,
        err |-> IF resolved[1] # "." THEN errBadBaseDomain ELSE NoErr]

\* validityPeriod without the second taken off
validityPeriod90Days == 90 * 24 * Hour

\* line 149
validityPeriod == 90 * 24 * Hour - Second

\* ValidityWindow with the hour added to windowEnd instead of taken off
ValidityWindowPlusHour(now, wStart, wEnd) ==
    LET nb == now
        na == Add(nb, validityPeriod)
    IN IF wEnd # Nil /\ (Before(na, Deref(wStart)) \/ After(na, Deref(wEnd)))
       THEN LET na2 == Add(Deref(wEnd), Hour)
            IN [notBefore |-> Add(na2, -validityPeriod), notAfter |-> na2]
       ELSE [notBefore |-> nb, notAfter |-> na]

\* ValidityWindow with the bounds of the window excluded
ValidityWindowExclusive(now, wStart, wEnd) ==
    LET nb == now
        na == Add(nb, validityPeriod)
    IN IF wEnd # Nil /\ (~After(na, Deref(wStart)) \/ ~Before(na, Deref(wEnd)))
       THEN LET na2 == Add(Deref(wEnd), -1 * Hour)
            IN [notBefore |-> Add(na2, -validityPeriod), notAfter |-> na2]
       ELSE [notBefore |-> nb, notAfter |-> na]

\* lines 151-162, given that windowStart can be dereferenced
ValidityWindow(now, wStart, wEnd) ==
    LET nb == now
        na == Add(nb, validityPeriod)
    IN IF wEnd # Nil /\ (Before(na, Deref(wStart)) \/ After(na, Deref(wEnd)))
       THEN LET na2 == Add(Deref(wEnd), -1 * Hour)
            IN [notBefore |-> Add(na2, -validityPeriod), notAfter |-> na2]
       ELSE [notBefore |-> nb, notAfter |-> na]

\* line 158 dereferences windowStart whenever windowEnd is not nil
ValidityPanics(wStart, wEnd) == wEnd # Nil /\ wStart = Nil

\* line 164: serial.Bytes()[:5] panics when the slice is shorter than 5 bytes
PrefixLen == 5
NamingPanics(s) == Len(Bytes(Deref(s))) < PrefixLen
SubjectDomain(s, bd) ==
    EncodeToString(SubSeq(Bytes(Deref(s)), 1, PrefixLen)) \o bd

\* lines 167-181: the fields both templates are given
BaseTemplate(dom, ser, nb, na, bd) ==
    [Subject |-> [CommonName |-> dom],
     DNSNames |-> <<dom>>,
     SerialNumber |-> ser,
     NotBefore |-> nb,
     NotAfter |-> na,
     KeyUsage |-> "DigitalSignature",
     ExtKeyUsage |-> <<"ServerAuth", "ClientAuth">>,
     BasicConstraintsValid |-> TRUE,
     IsCA |-> FALSE,
     IssuingCertificateURL |->
        <<<<"h", "t", "t", "p", ":", "/", "/", "i", "s", "s", "u", "e", "r">> \o bd>>,
     CRLDistributionPoints |->
        <<<<"h", "t", "t", "p", ":", "/", "/", "c", "r", "l", "s">> \o bd>>,
     ExtraExtensions |-> <<>>]

\* ExtraExtensions with the poison added whatever the flag
ExtraExtensionsAlways(precert) == <<ctPoisonExtension>>

\* lines 182-184
ExtraExtensions(precert) == IF precert THEN <<ctPoisonExtension>> ELSE <<>>

\* LeafTemplate with the validity of the precertificate computed apart
LeafTemplateSkewed(precert, dom, ser, nb, na, bd) ==
    [BaseTemplate(dom, ser, IF precert THEN Add(nb, Second) ELSE nb,
                  IF precert THEN Add(na, Second) ELSE na, bd)
        EXCEPT !.ExtraExtensions = ExtraExtensions(precert)]

\* lines 167-184: the template issueLeafCert builds
LeafTemplate(precert, dom, ser, nb, na, bd) ==
    [BaseTemplate(dom, ser, nb, na, bd)
        EXCEPT !.ExtraExtensions = ExtraExtensions(precert)]

-----------------------------------------------------------------------------
(* The inputs tried *)

\* baseDomain arguments: every string over ".", "a" of at most MaxDomainLen
BaseDomains == UNION {[1..n -> {".", "a"}] : n \in 0..MaxDomainLen}

\* serials: the 8-byte words with n significant bytes, a leading byte and
\* the rest filled alike, below MaxInt64
SerialWord(n, h, f) ==
    [i \in 1..WordBytes |->
        IF i <= WordBytes - n THEN 0 ELSE IF i = WordBytes - n + 1 THEN h ELSE f]
SerialSamples ==
    {w \in {SerialWord(n, h, f) : n \in 0..WordBytes, h \in {1, 127}, f \in {0, 255}} :
        LessWord(w, MaxInt64)}

\* instants: multiples of 45 days shifted by some ticks or by one hour
TimeSamples ==
    {p * (45 * 24 * Hour) + o : p \in 0..MaxPeriods, o \in (0..MaxTicks) \cup {Hour}}

RandIntOutcomes ==
    {[n |-> w, err |-> NoErr] : w \in SerialSamples}
        \cup {[n |-> SerialWord(0, 0, 0), err |-> errEntropy]}
GenerateKeyOutcomes ==
    {[key |-> "certKey", err |-> NoErr], [key |-> "", err |-> errEntropy]}
LibOutcomes == {"ok", "create", "parse"}

Locals ==
    /\ pc = "start"
    /\ baseDomain = baseDomain0
    /\ certKey = Nil
    /\ serial = Nil
    /\ notBefore = 0
    /\ notAfter = 0
    /\ domain = <<>>
    /\ preCert = Nil
    /\ cert = Nil
    /\ ret = [pair |-> EmptyPair, err |-> NoErr]
    /\ events = <<>>
    /\ issued = <<>>
    /\ icRet = [cert |-> Nil, err |-> NoErr]

\* a call of IssueTestCertificate: any base domain, issuer, entropy and
\* library outcome; no window
Init ==
    /\ baseDomain0 \in BaseDomains
    /\ issuerKey \in {Nil, Ptr("issuerKey")}
    /\ issuerCert \in {Nil, Ptr("issuerCert")}
    /\ clk \in {45 * 24 * Hour, 45 * 24 * Hour + 1}
    /\ windowStart = Nil
    /\ windowEnd = Nil
    /\ randReader \in [key : GenerateKeyOutcomes, int : RandIntOutcomes]
    /\ x509env \in [1..2 -> LibOutcomes]
    /\ subjectKey = Nil
    /\ template = Nil
    /\ Locals

\* a call of IssueTestCertificate: any clock and window, everything else
\* going well
InitWindow ==
    /\ baseDomain0 = <<>>
    /\ issuerKey = Ptr("issuerKey")
    /\ issuerCert = Ptr("issuerCert")
    /\ clk \in TimeSamples
    /\ windowStart \in {Nil} \cup {Ptr(t) : t \in TimeSamples}
    /\ windowEnd \in {Nil} \cup {Ptr(t) : t \in TimeSamples}
    /\ randReader \in [key : {[key |-> "certKey", err |-> NoErr]},
                       int : {[n |-> SerialWord(n, 127, 255), err |-> NoErr] : n \in {PrefixLen, WordBytes - 1}}]
    /\ x509env = [i \in 1..2 |-> "ok"]
    /\ subjectKey = Nil
    /\ template = Nil
    /\ Locals

\* a direct call of IssueCertificate: every argument nil or not
InitIC ==
    /\ baseDomain0 \in {<<>>, <<".", "a">>}
    /\ issuerKey \in {Nil, Ptr("issuerKey")}
    /\ issuerCert \in {Nil, Ptr("issuerCert")}
    /\ clk = 0
    /\ windowStart = Nil
    /\ windowEnd = Nil
    /\ randReader = [key |-> [key |-> "certKey", err |-> NoErr],
                     int |-> [n |-> SerialWord(PrefixLen, 1, 0), err |-> NoErr]]
    /\ x509env \in [1..1 -> LibOutcomes]
    /\ subjectKey \in {Nil, Public(Ptr("certKey")), Public(Ptr("otherKey"))}
    /\ template \in {Nil} \cup
          {Ptr(LeafTemplate(pre, s \o baseDomain0, Ptr(SerialWord(PrefixLen, 1, 0)), t,
                            Add(t, validityPeriod), baseDomain0)) :
              pre \in BOOLEAN, s \in {<<"0", "1">>}, t \in {0, 1}}
    /\ Locals

-----------------------------------------------------------------------------
(* The steps of IssueTestCertificate *)

inputs == <<baseDomain0, issuerKey, issuerCert, clk, windowStart, windowEnd,
            randReader, x509env, subjectKey, template, icRet>>

Return(pair, err) ==
    /\ ret' = [pair |-> pair, err |-> err]
    /\ pc' = "done"

\* lines 131-136
CheckBaseDomain ==
    /\ pc = "start"
    /\ LET r == ResolveBaseDomain(baseDomain)
       IN /\ baseDomain' = r.baseDomain
          /\ IF r.err # NoErr
             THEN Return(EmptyPair, r.err)
             ELSE pc' = "key" /\ UNCHANGED ret
    /\ UNCHANGED <<inputs, certKey, serial, notBefore, notAfter, domain, preCert,
                   cert, events, issued>>

\* lines 138-141
GenerateKey ==
    /\ pc = "key"
    /\ LET r == RandKey(randReader.key)
       IN /\ certKey' = r.key
          /\ IF r.err # NoErr
             THEN Return(EmptyPair, r.err)
             ELSE pc' = "serial" /\ UNCHANGED ret
    /\ events' = Append(events, "RandKey")
    /\ UNCHANGED <<inputs, baseDomain, serial, notBefore, notAfter, domain,
                   preCert, cert, issued>>

\* lines 142-145
GenerateSerial ==
    /\ pc = "serial"
    /\ LET r == RandSerial(randReader.int)
       IN /\ serial' = r.serial
          /\ IF r.err # NoErr
             THEN Return(EmptyPair, r.err)
             ELSE pc' = "validity" /\ UNCHANGED ret
    /\ events' = Append(events, "RandSerial")
    /\ UNCHANGED <<inputs, baseDomain, certKey, notBefore, notAfter, domain,
                   preCert, cert, issued>>

\* lines 149-162
ComputeValidity ==
    /\ pc = "validity"
    /\ events' = Append(events, "Now")
    /\ IF ValidityPanics(windowStart, windowEnd)
       THEN /\ pc' = "panic"
            /\ notBefore' = clk
            /\ notAfter' = Add(clk, validityPeriod)
       ELSE LET w == ValidityWindow(clk, windowStart, windowEnd)
            IN /\ notBefore' = w.notBefore
               /\ notAfter' = w.notAfter
               /\ pc' = "naming"
    /\ UNCHANGED <<inputs, baseDomain, certKey, serial, domain, preCert, cert,
                   ret, issued>>

\* line 164
NameSubject ==
    /\ pc = "naming"
    /\ IF NamingPanics(serial)
       THEN pc' = "panic" /\ UNCHANGED domain
       ELSE pc' = "precert" /\ domain' = SubjectDomain(serial, baseDomain)
    /\ UNCHANGED <<inputs, baseDomain, certKey, serial, notBefore, notAfter,
                   preCert, cert, ret, events, issued>>

\* lines 166-186: the template and the result of one issuance
issueLeafCert(precert) ==
    LET tmpl == LeafTemplate(precert, domain, serial, notBefore, notAfter, baseDomain)
    IN [tmpl |-> tmpl,
        res |-> IssueCertificate(Public(certKey), issuerKey, issuerCert, Ptr(tmpl),
                                 x509env[Len(issued) + 1])]

\* lines 188-191
IssuePreCert ==
    /\ pc = "precert"
    /\ LET r == issueLeafCert(TRUE)
       IN /\ issued' = Append(issued, r.tmpl)
          /\ events' = events \o <<"IssueCertificate">> \o r.res.calls
          /\ preCert' = r.res.cert
          /\ IF r.res.err # NoErr
             THEN Return(EmptyPair, r.res.err)
             ELSE pc' = "cert" /\ UNCHANGED ret
    /\ UNCHANGED <<inputs, baseDomain, certKey, serial, notBefore, notAfter,
                   domain, cert>>

\* IssueFinalCert handing back the precertificate when the second issuance fails
IssueFinalCertPartial ==
    /\ pc = "cert"
    /\ LET r == issueLeafCert(FALSE)
       IN /\ issued' = Append(issued, r.tmpl)
          /\ events' = events \o <<"IssueCertificate">> \o r.res.calls
          /\ cert' = r.res.cert
          /\ IF r.res.err # NoErr
             THEN Return(CertificatePair(preCert, Nil), r.res.err)
             ELSE pc' = "return" /\ UNCHANGED ret
    /\ UNCHANGED <<inputs, baseDomain, certKey, serial, notBefore, notAfter,
                   domain, preCert>>

\* lines 192-195
IssueFinalCert ==
    /\ pc = "cert"
    /\ LET r == issueLeafCert(FALSE)
       IN /\ issued' = Append(issued, r.tmpl)
          /\ events' = events \o <<"IssueCertificate">> \o r.res.calls
          /\ cert' = r.res.cert
          /\ IF r.res.err # NoErr
             THEN Return(EmptyPair, r.res.err)
             ELSE pc' = "return" /\ UNCHANGED ret
    /\ UNCHANGED <<inputs, baseDomain, certKey, serial, notBefore, notAfter,
                   domain, preCert>>

\* lines 197-200
ReturnPair ==
    /\ pc = "return"
    /\ Return(CertificatePair(preCert, cert), NoErr)
    /\ UNCHANGED <<inputs, baseDomain, certKey, serial, notBefore, notAfter,
                   domain, preCert, cert, events, issued>>

\* lines 68-95, called directly
CallIssueCertificate ==
    /\ pc = "start"
    /\ LET r == IssueCertificate(subjectKey, issuerKey, issuerCert, template, x509env[1])
       IN /\ icRet' = [cert |-> r.cert, err |-> r.err]
          /\ events' = events \o <<"IssueCertificate">> \o r.calls
    /\ pc' = "done"
    /\ UNCHANGED <<baseDomain0, issuerKey, issuerCert, clk, windowStart, windowEnd,
                   randReader, x509env, subjectKey, template, baseDomain, certKey,
                   serial, notBefore, notAfter, domain, preCert, cert, ret, issued>>

Next ==
    \/ CheckBaseDomain
    \/ GenerateKey
    \/ GenerateSerial
    \/ ComputeValidity
    \/ NameSubject
    \/ IssuePreCert
    \/ IssueFinalCert
    \/ ReturnPair

NextIC == CallIssueCertificate

Spec == Init /\ [][Next]_vars
SpecWindow == InitWindow /\ [][Next]_vars
SpecIC == InitIC /\ [][NextIC]_vars

-----------------------------------------------------------------------------
(* Properties *)

Returned == pc = "done"
Succeeded == pc = "done" /\ ret.err = NoErr
Count(op) == Cardinality({i \in DOMAIN events : events[i] = op})
PreCertOf(r) == Deref(r.pair.PreCert)
CertOf(r) == Deref(r.pair.Cert)
HasPoison(exts) == \E i \in DOMAIN exts : exts[i].Id = ctPoisonExtensionID
BothWindowBounds == windowStart # Nil /\ windowEnd # Nil
\* D of the claims: the default NotAfter
DefaultNotAfter == Add(clk, validityPeriod)

\* C1: every successful call of IssueTestCertificate returns a PreCert and a
\* Cert with the same serial number, subject public key, subject common name,
\* single DNS name, NotBefore and NotAfter, after one key generation, one
\* serial generation and one clock reading.
C1_PairSharesFields ==
    Succeeded =>
        /\ ret.pair.PreCert # Nil /\ ret.pair.Cert # Nil
        /\ PreCertOf(ret).SerialNumber = CertOf(ret).SerialNumber
        /\ PreCertOf(ret).PublicKey = CertOf(ret).PublicKey
        /\ PreCertOf(ret).Subject.CommonName = CertOf(ret).Subject.CommonName
        /\ PreCertOf(ret).DNSNames = CertOf(ret).DNSNames
        /\ Len(CertOf(ret).DNSNames) = 1
        /\ PreCertOf(ret).NotBefore = CertOf(ret).NotBefore
        /\ PreCertOf(ret).NotAfter = CertOf(ret).NotAfter
        /\ Count("RandKey") = 1 /\ Count("RandSerial") = 1 /\ Count("Now") = 1

C1_Witness ==
    /\ Succeeded
    /\ clk % Second # 0
    /\ CertOf(ret).PublicKey = [pub |-> "certKey"]
    /\ CertOf(ret).SerialNumber = Ptr(SerialWord(WordBytes, 127, 0))

\* C2: the first template handed to IssueCertificate carries exactly one
\* extra extension, the critical CT-poison extension with OID
\* 1.3.6.1.4.1.11129.2.4.3 and value 05 00; the second carries no extension
\* of that OID and is otherwise the same template; the returned PreCert has
\* the poison and the returned Cert has not.
C2_PoisonOnlyOnPreCert ==
    /\ Len(issued) <= 2
    /\ Len(issued) >= 1 =>
          /\ issued[1].ExtraExtensions =
                <<[Id |-> <<1, 3, 6, 1, 4, 1, 11129, 2, 4, 3>>, Critical |-> TRUE,
                   Value |-> <<5, 0>>]>>
    /\ Len(issued) = 2 =>
          /\ ~HasPoison(issued[2].ExtraExtensions)
          /\ [issued[1] EXCEPT !.ExtraExtensions = <<>>] = issued[2]
    /\ Succeeded =>
          /\ Len(issued) = 2
          /\ HasPoison(PreCertOf(ret).Extensions)
          /\ ~HasPoison(CertOf(ret).Extensions)

C2_Witness ==
    /\ Succeeded
    /\ Len(issued) = 2
    /\ Len(issued[1].ExtraExtensions) = 1
    /\ Len(issued[2].ExtraExtensions) = 0

C4_NilStartReturnsNow ==
    windowStart = Nil =>
        /\ pc # "panic"
        /\ Succeeded => CertOf(ret).NotBefore = clk

\* C5 as claimed: with windowEnd nil, whatever windowStart is, the returned
\* NotBefore is the clock's current time and NotAfter is NotBefore plus 90
\* days less a second.
C5_NilEndDefaultWindow ==
    (Succeeded /\ windowEnd = Nil) =>
        /\ CertOf(ret).NotBefore = clk
        /\ CertOf(ret).NotAfter = CertOf(ret).NotBefore + (90 * 24 * Hour - Second)

\* C5 as amended: with windowEnd nil, whatever windowStart is, the returned
\* NotBefore is the clock's current time cut to the whole second and NotAfter
\* is NotBefore plus 90 days less a second.
C5_NilEndDefaultWindowToTheSecond ==
    (Succeeded /\ windowEnd = Nil) =>
        /\ CertOf(ret).NotBefore = clk - (clk % Second)
        /\ CertOf(ret).NotAfter = CertOf(ret).NotBefore + (90 * 24 * Hour - Second)
        /\ PreCertOf(ret).NotBefore = CertOf(ret).NotBefore
        /\ PreCertOf(ret).NotAfter = CertOf(ret).NotAfter

C5_Witness ==
    /\ Succeeded
    /\ windowEnd = Nil
    /\ windowStart # Nil
    /\ Before(DefaultNotAfter, Deref(windowStart))
    /\ clk % Second # 0

\* C6 as claimed: with both bounds given and D the clock's time plus 90 days
\* less a second: if D is before windowStart or after windowEnd then
\* NotAfter = windowEnd - 1 hour and NotBefore = NotAfter - (90 days - 1 s);
\* if D is in [windowStart, windowEnd] then NotBefore is the clock's time and
\* NotAfter = D; either way NotAfter - NotBefore is 90 days less a second.
C6_WindowAdjustment ==
    (Succeeded /\ BothWindowBounds) =>
        /\ IF DefaultNotAfter < Deref(windowStart) \/ DefaultNotAfter > Deref(windowEnd)
           THEN /\ CertOf(ret).NotAfter = Deref(windowEnd) - Hour
                /\ CertOf(ret).NotBefore = CertOf(ret).NotAfter - (90 * 24 * Hour - Second)
           ELSE /\ CertOf(ret).NotBefore = clk
                /\ CertOf(ret).NotAfter = DefaultNotAfter
        /\ CertOf(ret).NotAfter - CertOf(ret).NotBefore = 90 * 24 * Hour - Second

\* C6 as amended: the same, with the instants of the returned certificates
\* cut to the whole second: NotAfter is windowEnd - 1 hour cut to the second
\* in the first case, NotBefore is the clock's time cut to the second and
\* NotAfter is D cut to the second in the other.
C6_WindowAdjustmentToTheSecond ==
    (Succeeded /\ BothWindowBounds) =>
        /\ IF DefaultNotAfter < Deref(windowStart) \/ DefaultNotAfter > Deref(windowEnd)
           THEN /\ CertOf(ret).NotAfter =
                      (Deref(windowEnd) - Hour) - ((Deref(windowEnd) - Hour) % Second)
                /\ CertOf(ret).NotBefore = CertOf(ret).NotAfter - (90 * 24 * Hour - Second)
           ELSE /\ CertOf(ret).NotBefore = clk - (clk % Second)
                /\ CertOf(ret).NotAfter = DefaultNotAfter - (DefaultNotAfter % Second)
        /\ CertOf(ret).NotAfter - CertOf(ret).NotBefore = 90 * 24 * Hour - Second
        /\ PreCertOf(ret).NotBefore = CertOf(ret).NotBefore
        /\ PreCertOf(ret).NotAfter = CertOf(ret).NotAfter

C6_Witness ==
    /\ Succeeded /\ BothWindowBounds
    /\ DefaultNotAfter = Deref(windowStart)
    /\ Deref(windowStart) < Deref(windowEnd)
    /\ CertOf(ret).NotAfter = DefaultNotAfter

\* C7: an empty baseDomain is replaced by the default suffix and the call
\* goes on; a non-empty baseDomain not starting with "." makes the call fail
\* with errBadBaseDomain and an empty pair before any key, serial, clock
\* reading or issuance; a non-empty baseDomain starting with "." is the
\* suffix of the subject name, unchanged.
C7_BaseDomainResolution ==
    pc # "start" =>
        /\ baseDomain0 = <<>> =>
              /\ baseDomain = defaultTestCertDomain
              /\ ~(Returned /\ ret.err = errBadBaseDomain)
              /\ events = <<>> => pc = "key"
        /\ (baseDomain0 # <<>> /\ baseDomain0[1] # ".") =>
              /\ Returned
              /\ ret = [pair |-> EmptyPair, err |-> errBadBaseDomain]
              /\ events = <<>> /\ issued = <<>>
              /\ certKey = Nil /\ serial = Nil
        /\ (baseDomain0 # <<>> /\ baseDomain0[1] = ".") =>
              /\ baseDomain = baseDomain0
              /\ ~(Returned /\ ret.err = errBadBaseDomain)
              /\ events = <<>> => pc = "key"
        /\ (baseDomain0 = <<>> \/ baseDomain0[1] = ".") =>
              /\ domain # <<>> =>
                    SubSeq(domain, 2 * PrefixLen + 1, Len(domain)) = baseDomain
              /\ Succeeded => CertOf(ret).Subject.CommonName = domain

C7_Witness ==
    /\ Returned
    /\ baseDomain0 = <<"a", ".">>
    /\ ret.err = errBadBaseDomain

\* C8: IssueCertificate checks subject key, issuer key, issuer certificate and
\* template in that order: when at least one is nil it returns no certificate
\* and the error of the first nil one, the four errors being distinct, and
\* makes no library call.
C8_NilChecksInOrder ==
    /\ Cardinality({errNilSubjKey, errNilIssuerKey, errNilIssuerCert, errNilTemplate}) = 4
    /\ (Returned /\ Nil \in {subjectKey, issuerKey, issuerCert, template}) =>
          /\ icRet.cert = Nil
          /\ events = <<"IssueCertificate">>
          /\ subjectKey = Nil => icRet.err = errNilSubjKey
          /\ (subjectKey # Nil /\ issuerKey = Nil) => icRet.err = errNilIssuerKey
          /\ (subjectKey # Nil /\ issuerKey # Nil /\ issuerCert = Nil) =>
                icRet.err = errNilIssuerCert
          /\ (subjectKey # Nil /\ issuerKey # Nil /\ issuerCert # Nil) =>
                icRet.err = errNilTemplate

C8_Witness ==
    /\ Returned
    /\ subjectKey = Nil /\ issuerKey # Nil /\ issuerCert = Nil /\ template = Nil
    /\ icRet.err = errNilSubjKey

\* the error the n-th issuance ends with
IssuanceErr(n) ==
    IF issuerKey = Nil THEN errNilIssuerKey
    ELSE IF issuerCert = Nil THEN errNilIssuerCert
    ELSE IF x509env[n] = "create" THEN errCreate
    ELSE IF x509env[n] = "parse" THEN errParse
    ELSE NoErr

\* C9: the precertificate is issued first and the final certificate second;
\* when key generation, serial generation, the first or the second issuance
\* fails, the call returns that error with an empty pair, attempts no later
\* step and retries none; a pair is returned only when both issuances
\* succeeded.
C9_AllOrNothingInOrder ==
    /\ Count("RandKey") <= 1 /\ Count("RandSerial") <= 1 /\ Count("Now") <= 1
    /\ Count("IssueCertificate") <= 2 /\ Count("IssueCertificate") = Len(issued)
    /\ Count("CreateCertificate") <= 2 /\ Count("ParseCertificate") <= 2
    /\ Len(issued) >= 1 => HasPoison(issued[1].ExtraExtensions)
    /\ Len(issued) = 2 => ~HasPoison(issued[2].ExtraExtensions)
    /\ (Returned /\ ret.err # NoErr) => ret.pair = EmptyPair
    /\ (Returned /\ ret.err # errBadBaseDomain) =>
          IF randReader.key.err # NoErr
          THEN ret.err = randReader.key.err /\ events = <<"RandKey">>
          ELSE IF randReader.int.err # NoErr
          THEN ret.err = randReader.int.err /\ events = <<"RandKey", "RandSerial">>
          ELSE IF IssuanceErr(1) # NoErr
          THEN /\ ret.err = IssuanceErr(1)
               /\ Len(issued) = 1
               /\ Count("CreateCertificate") <= 1
          ELSE IF IssuanceErr(2) # NoErr
          THEN /\ ret.err = IssuanceErr(2)
               /\ Len(issued) = 2
               /\ Count("CreateCertificate") = 2
          ELSE /\ ret.err = NoErr
               /\ ret.pair.PreCert # Nil /\ ret.pair.Cert # Nil
               /\ ret.pair = CertificatePair(preCert, cert)
               /\ events = <<"RandKey", "RandSerial", "Now",
                             "IssueCertificate", "CreateCertificate", "ParseCertificate",
                             "IssueCertificate", "CreateCertificate", "ParseCertificate">>

C9_Witness ==
    /\ Returned
    /\ x509env[1] = "ok" /\ x509env[2] = "parse"
    /\ ret.err = errParse
    /\ preCert # Nil
    /\ Len(issued) = 2

\* C10 as claimed: for every serial RandSerial can return, subject naming
\* succeeds and the name is the hex encoding (10 digits) of the first 5 bytes
\* of the serial's big-endian bytes followed by the resolved suffix, and is
\* the common name and the sole DNS name of the templates.
C10_NamingSucceedsForEverySerial ==
    (serial # Nil /\ pc \notin {"validity", "naming"}) =>
        /\ pc # "panic"
        /\ Len(domain) = 2 * PrefixLen + Len(baseDomain)
        /\ \A t \in {issued[i] : i \in DOMAIN issued} :
              t.Subject.CommonName = domain /\ t.DNSNames = <<domain>>

====
